---- MODULE Spec2Model ----
(***************************************************************************)
(* State-machine model of the file identifier job                          *)
(* (core/src/object/file_identifier/file_identifier_job.rs): init,         *)
(* execute_step, finalize, the orphan queries they issue against the       *)
(* file_path table, and the merge of step metadata.                        *)
(***************************************************************************)
EXTENDS Integers, Sequences, FiniteSets, TLC

\* ------------------------------------------------------------------------
\* Bounds of the model
\* ------------------------------------------------------------------------
\* file_path ids range over 1..MaxId
MaxId == 4

\* value given to CHUNK_SIZE in the model
ChunkBound == 2

\* number of rows the external scanning process may insert during a run
MaxInserts == 1

\* ------------------------------------------------------------------------
\* Values
\* ------------------------------------------------------------------------
CHUNK_SIZE == ChunkBound

Ids == 1..MaxId

\* init.location.id and the id of some other location
ThisLocation == "loc_a"
OtherLocation == "loc_b"

\* materialized paths, as sequences of directory names: <<>> is "/",
\* <<"sub">> is "/sub/"
RootPath == <<>>
SubPath == <<"sub">>

\* Option<T>: None is the empty sequence, Some(v) is <<v>>
None == <<>>
Some(v) == <<v>>

\* a file_path row; object_id = 0 is NULL; present = FALSE is "no row has this id"
Row(loc, dir, path, obj, content) ==
    [present |-> TRUE, location_id |-> loc, is_dir |-> dir,
     materialized_path |-> path, object_id |-> obj, content |-> content]

NoRow ==
    [present |-> FALSE, location_id |-> ThisLocation, is_dir |-> FALSE,
     materialized_path |-> RootPath, object_id |-> 0, content |-> "x"]

\* rows the scanning process may have left in the table before the job runs
InitialRows ==
    { NoRow,
      Row(ThisLocation, FALSE, SubPath, 0, "x"),
      Row(ThisLocation, FALSE, SubPath, 0, "y"),
      Row(ThisLocation, FALSE, RootPath, 0, "x"),
      Row(ThisLocation, TRUE, SubPath, 0, "x"),
      Row(OtherLocation, FALSE, SubPath, 0, "x"),
      Row(ThisLocation, FALSE, SubPath, 1, "x") }

\* rows the scanning process inserts while a job runs
InsertedRows ==
    { Row(ThisLocation, FALSE, SubPath, 0, "x"),
      Row(ThisLocation, FALSE, RootPath, 0, "y") }

\* ------------------------------------------------------------------------
\* State
\* ------------------------------------------------------------------------
VARIABLES
    file_path,      \* the file_path table: id -> row
    object,         \* the object table: object id (index) -> cas_id
    status,         \* NotStarted, Running, Finalized, EarlyFinished, Failed
    data,           \* FileIdentifierJobData: maybe_sub_iso_file_path
    run_metadata,   \* FileIdentifierJobRunMetadata kept by the job system
    steps,          \* number of planned steps (vec![(); task_count])
    step_number,    \* number of steps completed so far
    pc,             \* position inside execute_step: "idle" or "process"
    file_paths,     \* the batch fetched by the running step
    pending,        \* ids of the batch not yet processed by the engine
    tally,          \* the engine's counters for the running step
    orphan_count,   \* the count taken by init (-1: not counted)
    init_orphans,   \* ids matching the orphan filter when init counted
    batches,        \* the batches fetched so far, in order
    last,           \* record of the last completed step
    inserted,       \* rows inserted by the scanning process during the run
    init,           \* FileIdentifierJobInit: the sub_path the job was given
    error,          \* the error a failed run ended with
    previous,       \* what an earlier, finalized run over the location left
    checkpoint,     \* the serialized job state of a paused run
    appeared        \* rows that appeared below the cursor, with the number
                    \* of batches fetched before they did

vars == <<file_path, object, status, data, run_metadata, steps, step_number,
          pc, file_paths, pending, tally, orphan_count, init_orphans,
          batches, last, inserted, init, error, previous, checkpoint, appeared>>

\* ------------------------------------------------------------------------
\* Helpers
\* ------------------------------------------------------------------------
Min(a, b) == IF a <= b THEN a ELSE b

MaxOf(S) == CHOOSE m \in S : \A n \in S : n <= m

MinOf(S) == CHOOSE m \in S : \A n \in S : m <= n

Range(seq) == { seq[i] : i \in 1..Len(seq) }

\* String::starts_with on materialized paths
StartsWith(path, prefix) ==
    /\ Len(prefix) <= Len(path)
    /\ SubSeq(path, 1, Len(prefix)) = prefix

\* IsolatedFilePathData of the directory "sub" of the location root
SubIsoFilePath == [materialized_path |-> RootPath, name |-> "sub", is_dir |-> TRUE]

\* IsolatedFilePathData::materialized_path_for_children
materialized_path_for_children(iso) == Append(iso.materialized_path, iso.name)

\* order_by(file_path::id::order(SortOrder::Asc)) over a set of ids
RECURSIVE OrderByIdAsc(_)
OrderByIdAsc(S) ==
    IF S = {} THEN <<>>
    ELSE LET m == MinOf(S) IN <<m>> \o OrderByIdAsc(S \ {m})

\* .take(n)
Take(seq, n) == SubSeq(seq, 1, Min(n, Len(seq)))

\* ------------------------------------------------------------------------
\* The orphan queries
\* ------------------------------------------------------------------------
\* orphan_path_filters with file_path::id::gt in place of gte
orphan_path_filters_Gt(table, id, location_id, file_path_id, maybe_sub_iso_file_path) ==
    /\ table[id].present
    /\ table[id].object_id = 0
    /\ table[id].is_dir = FALSE
    /\ table[id].location_id = location_id
    /\ (file_path_id # None => id > file_path_id[1])
    /\ (maybe_sub_iso_file_path # None =>
            StartsWith(table[id].materialized_path,
                       Append(maybe_sub_iso_file_path[1].materialized_path,
                              maybe_sub_iso_file_path[1].name)))

\* orphan_path_filters without file_path::object_id::equals(None)
orphan_path_filters_NoObjectCheck(table, id, location_id, file_path_id, maybe_sub_iso_file_path) ==
    /\ table[id].present
    /\ table[id].is_dir = FALSE
    /\ table[id].location_id = location_id
    /\ (file_path_id # None => id >= file_path_id[1])
    /\ (maybe_sub_iso_file_path # None =>
            StartsWith(table[id].materialized_path,
                       Append(maybe_sub_iso_file_path[1].materialized_path,
                              maybe_sub_iso_file_path[1].name)))

\* orphan_path_filters without file_path::location_id::equals(location_id)
orphan_path_filters_AnyLocation(table, id, location_id, file_path_id, maybe_sub_iso_file_path) ==
    /\ table[id].present
    /\ table[id].object_id = 0
    /\ table[id].is_dir = FALSE
    /\ (file_path_id # None => id >= file_path_id[1])
    /\ (maybe_sub_iso_file_path # None =>
            StartsWith(table[id].materialized_path,
                       Append(maybe_sub_iso_file_path[1].materialized_path,
                              maybe_sub_iso_file_path[1].name)))

\* orphan_path_filters without file_path::id::gte(file_path_id)
orphan_path_filters_NoCursor(table, id, location_id, file_path_id, maybe_sub_iso_file_path) ==
    /\ table[id].present
    /\ table[id].object_id = 0
    /\ table[id].is_dir = FALSE
    /\ table[id].location_id = location_id
    /\ (maybe_sub_iso_file_path # None =>
            StartsWith(table[id].materialized_path,
                       Append(maybe_sub_iso_file_path[1].materialized_path,
                              maybe_sub_iso_file_path[1].name)))

\* the WHERE clause: does the row with this id of the table satisfy it
orphan_path_filters(table, id, location_id, file_path_id, maybe_sub_iso_file_path) ==
    /\ table[id].present
    /\ table[id].object_id = 0
    /\ table[id].is_dir = FALSE
    /\ table[id].location_id = location_id
    /\ (file_path_id # None => id >= file_path_id[1])
    /\ (maybe_sub_iso_file_path # None =>
            StartsWith(table[id].materialized_path,
                       materialized_path_for_children(maybe_sub_iso_file_path[1])))

\* the ids of the rows a query with this WHERE clause selects
Matching(table, location_id, file_path_id, maybe_sub_iso_file_path) ==
    { id \in Ids : orphan_path_filters(table, id, location_id, file_path_id,
                                       maybe_sub_iso_file_path) }

count_orphan_file_paths(table, location_id, maybe_sub_materialized_path) ==
    Cardinality(Matching(table, location_id, None, maybe_sub_materialized_path))

\* find_first without order_by: the rows the database may return, which is
\* any row that satisfies the WHERE clause, depending on how it scans the table
find_first(table, location_id, maybe_sub_iso_file_path) ==
    Matching(table, location_id, None, maybe_sub_iso_file_path)

get_orphan_file_paths(table, location_id, file_path_id, maybe_sub_materialized_path) ==
    Take(OrderByIdAsc(Matching(table, location_id, Some(file_path_id),
                               maybe_sub_materialized_path)),
         CHUNK_SIZE)

\* ------------------------------------------------------------------------
\* Run metadata
\* ------------------------------------------------------------------------
DefaultReport ==
    [total_orphan_paths |-> 0, total_objects_created |-> 0,
     total_objects_linked |-> 0, total_objects_ignored |-> 0]

DefaultRunMetadata == [report |-> DefaultReport, cursor |-> 0]

\* update that assigns total_orphan_paths instead of adding to it
update_ReplacesTotal(self, new_data) ==
    [report |->
        [total_orphan_paths |-> new_data.report.total_orphan_paths,
         total_objects_created |->
            self.report.total_objects_created + new_data.report.total_objects_created,
         total_objects_linked |->
            self.report.total_objects_linked + new_data.report.total_objects_linked,
         total_objects_ignored |->
            self.report.total_objects_ignored + new_data.report.total_objects_ignored],
     cursor |-> new_data.cursor]

\* update that leaves the cursor as it was
update_KeepsCursor(self, new_data) ==
    [report |->
        [total_orphan_paths |->
            self.report.total_orphan_paths + new_data.report.total_orphan_paths,
         total_objects_created |->
            self.report.total_objects_created + new_data.report.total_objects_created,
         total_objects_linked |->
            self.report.total_objects_linked + new_data.report.total_objects_linked,
         total_objects_ignored |->
            self.report.total_objects_ignored + new_data.report.total_objects_ignored],
     cursor |-> self.cursor]

\* update that assigns total_objects_created instead of adding to it
update_ReplacesCreated(self, new_data) ==
    [report |->
        [total_orphan_paths |->
            self.report.total_orphan_paths + new_data.report.total_orphan_paths,
         total_objects_created |-> new_data.report.total_objects_created,
         total_objects_linked |->
            self.report.total_objects_linked + new_data.report.total_objects_linked,
         total_objects_ignored |->
            self.report.total_objects_ignored + new_data.report.total_objects_ignored],
     cursor |-> new_data.cursor]

\* JobRunMetadata::update
update(self, new_data) ==
    [report |->
        [total_orphan_paths |->
            self.report.total_orphan_paths + new_data.report.total_orphan_paths,
         total_objects_created |->
            self.report.total_objects_created + new_data.report.total_objects_created,
         total_objects_linked |->
            self.report.total_objects_linked + new_data.report.total_objects_linked,
         total_objects_ignored |->
            self.report.total_objects_ignored + new_data.report.total_objects_ignored],
     cursor |-> new_data.cursor]

\* task_count by integer division, which rounds down
task_count_Floor(count) == count \div CHUNK_SIZE

\* (orphan_count as f64 / CHUNK_SIZE as f64).ceil() as usize
task_count(count) ==
    IF count % CHUNK_SIZE = 0 THEN count \div CHUNK_SIZE
    ELSE (count \div CHUNK_SIZE) + 1

\* ------------------------------------------------------------------------
\* Serialized job state (derive(Serialize, Deserialize))
\* ------------------------------------------------------------------------
\* a struct is written as the sequence of its fields in declaration order
serialize_report(report) ==
    <<report.total_orphan_paths, report.total_objects_created,
      report.total_objects_linked, report.total_objects_ignored>>

deserialize_report(fields) ==
    [total_orphan_paths |-> fields[1], total_objects_created |-> fields[2],
     total_objects_linked |-> fields[3], total_objects_ignored |-> fields[4]]

serialize_run_metadata(metadata) ==
    <<serialize_report(metadata.report), metadata.cursor>>

\* a cursor that is not read back and takes its Default
deserialize_run_metadata_SkipsCursor(fields) ==
    [report |-> deserialize_report(fields[1]), cursor |-> 0]

deserialize_run_metadata(fields) ==
    [report |-> deserialize_report(fields[1]), cursor |-> fields[2]]

serialize_data(job_data) ==
    IF job_data = None THEN <<>>
    ELSE <<job_data[1].maybe_sub_iso_file_path>>

deserialize_data(fields) ==
    IF fields = <<>> THEN None
    ELSE Some([maybe_sub_iso_file_path |-> fields[1]])

\* no run was paused
NoCheckpoint == [bytes |-> <<>>, loaded |-> FALSE]

\* the metadata init returns for a run that has orphans
InitRunMetadata(count, first_path) ==
    [report |-> [DefaultReport EXCEPT !.total_orphan_paths = count],
     cursor |-> first_path]

\* new_metadata that also reports the step's entries as orphans
StepRunMetadata_CountsOrphans(total_objects_created, total_objects_linked, new_cursor) ==
    [report |-> [total_orphan_paths |-> total_objects_created + total_objects_linked,
                 total_objects_created |-> total_objects_created,
                 total_objects_linked |-> total_objects_linked,
                 total_objects_ignored |-> 0],
     cursor |-> new_cursor]

\* new_metadata without the assignment of total_objects_linked
StepRunMetadata_DropsLinked(total_objects_created, total_objects_linked, new_cursor) ==
    [report |-> [total_orphan_paths |-> 0,
                 total_objects_created |-> total_objects_created,
                 total_objects_linked |-> 0,
                 total_objects_ignored |-> 0],
     cursor |-> new_cursor]

\* the metadata execute_step returns from the engine's output
StepRunMetadata(total_objects_created, total_objects_linked, new_cursor) ==
    [report |-> [DefaultReport EXCEPT !.total_objects_created = total_objects_created,
                                      !.total_objects_linked = total_objects_linked],
     cursor |-> new_cursor]

\* ------------------------------------------------------------------------
\* The identification engine (process_identifier_file_paths)
\* ------------------------------------------------------------------------
\* the content-derived identifier of a file
cas_id(content) == <<"cas", content>>

\* lookup of a ContentRecord by identifier: the ids of the records that have it
ObjectsWith(objects, cas) == { i \in 1..Len(objects) : objects[i] = cas }

\* create-if-absent keyed by identifier: the table after it
CreateIfAbsent(objects, cas) ==
    IF ObjectsWith(objects, cas) = {} THEN Append(objects, cas) ELSE objects

\* new_cursor = 1 + max(id in batch)
new_cursor(batch) == 1 + MaxOf(Range(batch))

\* the engine's working state for one batch: its counters, the entries it
\* identified, and the object table it started from
DefaultTally ==
    [created |-> 0, linked |-> 0, ignored |-> 0, ok |-> {}, objects_before |-> <<>>]

NoStep ==
    [done |-> FALSE, batch |-> <<>>, cursor_before |-> 0,
     result |-> DefaultRunMetadata, tally |-> DefaultTally]

\* no earlier run
NoRun == [done |-> FALSE, data |-> None, report |-> DefaultReport]

\* ------------------------------------------------------------------------
\* Initial states
\* ------------------------------------------------------------------------
\* the sub_path inputs of init: none, the empty path, a directory of the
\* location, and a path of the location that is not a directory
SubPaths == {None, Some(""), Some("sub"), Some("file")}

Init ==
    /\ file_path \in [Ids -> InitialRows]
    /\ object = IF \E id \in Ids : file_path[id].object_id # 0
                THEN <<cas_id("x")>> ELSE <<>>
    /\ status = "NotStarted"
    /\ data = None
    /\ run_metadata = DefaultRunMetadata
    /\ steps = 0
    /\ step_number = 0
    /\ pc = "idle"
    /\ file_paths = <<>>
    /\ pending = {}
    /\ tally = DefaultTally
    /\ orphan_count = -1
    /\ init_orphans = {}
    /\ batches = <<>>
    /\ last = NoStep
    /\ inserted = 0
    /\ init = None
    /\ error = "none"
    /\ previous = NoRun
    /\ checkpoint = NoCheckpoint
    /\ appeared = {}

\* ------------------------------------------------------------------------
\* init
\* ------------------------------------------------------------------------
\* a check for orphans that never holds
NoOrphans_Never(count) == count < 0

\* if orphan_count == 0
NoOrphans(count) == count = 0

\* an init that counts the orphans before it validates the sub_path
InitInvalidSubPath_CountsFirst(sub_path) ==
    /\ status = "NotStarted"
    /\ sub_path = Some("file")
    /\ init' = Some([sub_path |-> sub_path])
    /\ orphan_count' = count_orphan_file_paths(file_path, ThisLocation, None)
    /\ status' = "Failed"
    /\ error' = "InvalidSubPath"
    /\ UNCHANGED <<file_path, object, data, run_metadata, steps, step_number, pc,
                   file_paths, pending, tally, init_orphans, batches, last, inserted>>
    /\ UNCHANGED <<previous, checkpoint, appeared>>

\* ensure_sub_path_is_directory fails: init returns the error before it counts
InitInvalidSubPath(sub_path) ==
    /\ status = "NotStarted"
    /\ sub_path = Some("file")
    /\ init' = Some([sub_path |-> sub_path])
    /\ status' = "Failed"
    /\ error' = "InvalidSubPath"
    /\ UNCHANGED <<file_path, object, data, run_metadata, steps, step_number, pc,
                   file_paths, pending, tally, orphan_count, init_orphans,
                   batches, last, inserted>>
    /\ UNCHANGED <<previous, checkpoint, appeared>>

JobInit(sub_path) ==
    /\ status = "NotStarted"
    /\ sub_path # Some("file")
    /\ LET maybe_sub_iso_file_path ==
               IF sub_path # None /\ sub_path # Some("")
               THEN Some(SubIsoFilePath) ELSE None
           count == count_orphan_file_paths(file_path, ThisLocation,
                                            maybe_sub_iso_file_path)
           first_paths == find_first(file_path, ThisLocation, maybe_sub_iso_file_path)
       IN  /\ data' = Some([maybe_sub_iso_file_path |-> maybe_sub_iso_file_path])
           /\ orphan_count' = count
           /\ init_orphans' = Matching(file_path, ThisLocation, None,
                                       maybe_sub_iso_file_path)
           /\ IF NoOrphans(count)
              THEN /\ status' = "EarlyFinished"
                   /\ UNCHANGED <<run_metadata, steps, error>>
              ELSE IF first_paths = {}
              THEN \* .expect(..) panics
                   /\ status' = "Failed"
                   /\ error' = "Panic"
                   /\ UNCHANGED <<run_metadata, steps>>
              ELSE \E first_path \in first_paths :
                   /\ status' = "Running"
                   /\ run_metadata' = InitRunMetadata(count, first_path)
                   /\ steps' = task_count(count)
                   /\ UNCHANGED error
    /\ init' = Some([sub_path |-> sub_path])
    /\ UNCHANGED <<file_path, object, step_number, pc, file_paths, pending, tally,
                   batches, last, inserted>>
    /\ UNCHANGED <<previous, checkpoint, appeared>>

\* ------------------------------------------------------------------------
\* execute_step
\* ------------------------------------------------------------------------
\* a fetch that reports an empty batch as a fatal error
ExecuteStepFetch_FailsOnEmpty ==
    /\ status = "Running"
    /\ pc = "idle"
    /\ step_number < steps
    /\ LET batch == get_orphan_file_paths(file_path, ThisLocation, run_metadata.cursor,
                                          data[1].maybe_sub_iso_file_path)
       IN  /\ batches' = Append(batches, batch)
           /\ IF batch = <<>>
              THEN /\ status' = "Failed"
                   /\ error' = "Fatal"
                   /\ UNCHANGED <<pc, file_paths, pending, tally>>
              ELSE /\ pc' = "process"
                   /\ file_paths' = batch
                   /\ pending' = Range(batch)
                   /\ tally' = [DefaultTally EXCEPT !.objects_before = object]
                   /\ UNCHANGED <<status, error>>
    /\ UNCHANGED <<file_path, object, data, run_metadata, steps, step_number,
                   orphan_count, init_orphans, last, inserted>>
    /\ UNCHANGED <<init, previous, checkpoint, appeared>>

\* the fetch of the step's batch, up to the early finish on an empty batch
ExecuteStepFetch ==
    /\ status = "Running"
    /\ pc = "idle"
    /\ step_number < steps
    /\ LET batch == get_orphan_file_paths(file_path, ThisLocation, run_metadata.cursor,
                                          data[1].maybe_sub_iso_file_path)
       IN  /\ batches' = Append(batches, batch)
           /\ IF batch = <<>>
              THEN /\ status' = "EarlyFinished"
                   /\ UNCHANGED <<pc, file_paths, pending, tally>>
              ELSE /\ pc' = "process"
                   /\ file_paths' = batch
                   /\ pending' = Range(batch)
                   /\ tally' = [DefaultTally EXCEPT !.objects_before = object]
                   /\ UNCHANGED status
    /\ UNCHANGED <<file_path, object, data, run_metadata, steps, step_number,
                   orphan_count, init_orphans, last, inserted>>
    /\ UNCHANGED <<init, error, previous, checkpoint, appeared>>

\* the engine identifies one entry of the batch; the entries of a batch are
\* processed in any order. readable = FALSE: the file vanished or cannot be read
ProcessEntry(id, readable) ==
    /\ status = "Running"
    /\ pc = "process"
    /\ id \in pending
    /\ pending' = pending \ {id}
    /\ IF ~readable
       THEN /\ tally' = [tally EXCEPT !.ignored = @ + 1]
            /\ UNCHANGED <<file_path, object>>
       ELSE LET cas == cas_id(file_path[id].content)
                found == ObjectsWith(object, cas) # {}
                objects == CreateIfAbsent(object, cas)
                record == MinOf(ObjectsWith(objects, cas))
            IN  /\ object' = objects
                /\ file_path' = [file_path EXCEPT ![id].object_id = record]
                /\ tally' = IF found
                            THEN [tally EXCEPT !.linked = @ + 1, !.ok = @ \cup {id}]
                            ELSE [tally EXCEPT !.created = @ + 1, !.ok = @ \cup {id}]
    /\ UNCHANGED <<status, data, run_metadata, steps, step_number, pc, file_paths,
                   orphan_count, init_orphans, batches, last, inserted>>
    /\ UNCHANGED <<init, error, previous, checkpoint, appeared>>

\* the engine returns; execute_step returns Continue with new_metadata and the
\* job system merges it into the run metadata
ExecuteStepMerge ==
    /\ status = "Running"
    /\ pc = "process"
    /\ pending = {}
    /\ LET new_metadata == StepRunMetadata(tally.created, tally.linked,
                                           new_cursor(file_paths))
       IN  /\ run_metadata' = update(run_metadata, new_metadata)
           /\ last' = [done |-> TRUE, batch |-> file_paths,
                       cursor_before |-> run_metadata.cursor,
                       result |-> new_metadata, tally |-> tally]
    /\ step_number' = step_number + 1
    /\ pc' = "idle"
    /\ file_paths' = <<>>
    /\ tally' = DefaultTally
    /\ UNCHANGED <<file_path, object, status, data, steps, pending, orphan_count,
                   init_orphans, batches, inserted>>
    /\ UNCHANGED <<init, error, previous, checkpoint, appeared>>

\* a storage or processing error ends the step with `?`: nothing is merged
ExecuteStepFatal ==
    /\ status = "Running"
    /\ step_number < steps
    /\ status' = "Failed"
    /\ error' = "Fatal"
    /\ pc' = "idle"
    /\ UNCHANGED <<file_path, object, data, run_metadata, steps, step_number,
                   file_paths, pending, tally, orphan_count, init_orphans,
                   batches, last, inserted>>
    /\ UNCHANGED <<init, previous, checkpoint, appeared>>

\* ------------------------------------------------------------------------
\* finalize
\* ------------------------------------------------------------------------
\* a finalize that does not wait for the planned steps
Finalize_Early ==
    /\ status = "Running"
    /\ pc = "idle"
    /\ status' = "Finalized"
    /\ UNCHANGED <<file_path, object, data, run_metadata, steps, step_number, pc,
                   file_paths, pending, tally, orphan_count, init_orphans,
                   batches, last, inserted>>
    /\ UNCHANGED <<init, error, previous, checkpoint, appeared>>

Finalize ==
    /\ status = "Running"
    /\ pc = "idle"
    /\ step_number = steps
    /\ status' = "Finalized"
    /\ UNCHANGED <<file_path, object, data, run_metadata, steps, step_number, pc,
                   file_paths, pending, tally, orphan_count, init_orphans,
                   batches, last, inserted>>
    /\ UNCHANGED <<init, error, previous, checkpoint, appeared>>

\* ------------------------------------------------------------------------
\* The scanning process
\* ------------------------------------------------------------------------
\* the id the table assigns to a new row
NextId == IF \E id \in Ids : file_path[id].present
          THEN 1 + MaxOf({ id \in Ids : file_path[id].present })
          ELSE 1

\* the scanning process inserts a row while the job runs
InsertRow(row) ==
    /\ status = "Running"
    /\ inserted < MaxInserts
    /\ NextId \in Ids
    /\ file_path' = [file_path EXCEPT ![NextId] = row]
    /\ inserted' = inserted + 1
    /\ UNCHANGED <<object, status, data, run_metadata, steps, step_number, pc,
                   file_paths, pending, tally, orphan_count, init_orphans,
                   batches, last>>
    /\ UNCHANGED <<init, error, previous, checkpoint, appeared>>

\* ------------------------------------------------------------------------
\* Specification
\* ------------------------------------------------------------------------
Next ==
    \/ \E sub_path \in SubPaths : InitInvalidSubPath(sub_path)
    \/ \E sub_path \in SubPaths : JobInit(sub_path)
    \/ ExecuteStepFetch
    \/ \E id \in Ids, readable \in BOOLEAN : ProcessEntry(id, readable)
    \/ ExecuteStepMerge
    \/ ExecuteStepFatal
    \/ Finalize
    \/ \E row \in InsertedRows : InsertRow(row)

Spec == Init /\ [][Next]_vars

\* the steps of the job itself, which its worker keeps taking
JobNext ==
    \/ \E sub_path \in SubPaths : InitInvalidSubPath(sub_path)
    \/ \E sub_path \in SubPaths : JobInit(sub_path)
    \/ ExecuteStepFetch
    \/ \E id \in Ids, readable \in BOOLEAN : ProcessEntry(id, readable)
    \/ ExecuteStepMerge
    \/ Finalize

\* the worker that holds the job runs it until it ends
FairSpec == Init /\ [][Next]_vars /\ WF_vars(JobNext)

\* ------------------------------------------------------------------------
\* A second run over the location
\* ------------------------------------------------------------------------
\* the job is spawned again over the same location after a run was finalized:
\* a new job state, the same tables
NewRun ==
    /\ status = "Finalized"
    /\ ~previous.done
    /\ previous' = [done |-> TRUE, data |-> data, report |-> run_metadata.report]
    /\ status' = "NotStarted"
    /\ data' = None
    /\ run_metadata' = DefaultRunMetadata
    /\ steps' = 0
    /\ step_number' = 0
    /\ orphan_count' = -1
    /\ init_orphans' = {}
    /\ batches' = <<>>
    /\ last' = NoStep
    /\ init' = None
    /\ appeared' = {}
    /\ UNCHANGED <<file_path, object, pc, file_paths, pending, tally, inserted,
                   error, checkpoint>>

NextRerun == Next \/ NewRun

\* the tables of the runs that are followed by a second run or are paused:
\* files of the location, inside and outside the sub directory, orphan or linked
RerunRows ==
    { NoRow,
      Row(ThisLocation, FALSE, SubPath, 0, "x"),
      Row(ThisLocation, FALSE, RootPath, 0, "x"),
      Row(ThisLocation, FALSE, SubPath, 1, "x") }

InitRerun == Init /\ \A id \in Ids : file_path[id] \in RerunRows

SpecRerun == InitRerun /\ [][NextRerun]_vars

\* ------------------------------------------------------------------------
\* Pause and resume
\* ------------------------------------------------------------------------
\* the job is paused between two steps: its state is serialized
Pause ==
    /\ status = "Running"
    /\ pc = "idle"
    /\ status' = "Paused"
    /\ checkpoint' = [bytes |-> <<serialize_data(data),
                                  serialize_run_metadata(run_metadata),
                                  steps, step_number>>,
                      loaded |-> FALSE]
    /\ UNCHANGED <<file_path, object, data, run_metadata, steps, step_number, pc,
                   file_paths, pending, tally, orphan_count, init_orphans,
                   batches, last, inserted, init, error, previous, appeared>>

\* the job is resumed, possibly by another worker: the job state is what the
\* serialized state gives, and nothing is in progress
Resume ==
    /\ status = "Paused"
    /\ status' = "Running"
    /\ data' = deserialize_data(checkpoint.bytes[1])
    /\ run_metadata' = deserialize_run_metadata(checkpoint.bytes[2])
    /\ steps' = checkpoint.bytes[3]
    /\ step_number' = checkpoint.bytes[4]
    /\ pc' = "idle"
    /\ file_paths' = <<>>
    /\ pending' = {}
    /\ tally' = DefaultTally
    /\ checkpoint' = [bytes |-> <<>>, loaded |-> TRUE]
    /\ UNCHANGED <<file_path, object, orphan_count, init_orphans, batches, last,
                   inserted, init, error, previous, appeared>>

NextPause == Next \/ Pause \/ Resume

\* runs with pauses, over the same tables
SpecPause == InitRerun /\ [][NextPause]_vars

\* ------------------------------------------------------------------------
\* Orphans that appear below the cursor of a run in progress
\* ------------------------------------------------------------------------
\* a row becomes visible at an id below the cursor
AppearRow(id, row) ==
    /\ status = "Running"
    /\ inserted < MaxInserts
    /\ id < run_metadata.cursor
    /\ ~file_path[id].present
    /\ file_path' = [file_path EXCEPT ![id] = row]
    /\ inserted' = inserted + 1
    /\ appeared' = appeared \cup {<<id, Len(batches)>>}
    /\ UNCHANGED <<object, status, data, run_metadata, steps, step_number, pc,
                   file_paths, pending, tally, orphan_count, init_orphans,
                   batches, last>>
    /\ UNCHANGED <<init, error, previous, checkpoint>>

\* a linked row below the cursor loses its content link
UnlinkRow(id) ==
    /\ status = "Running"
    /\ inserted < MaxInserts
    /\ id < run_metadata.cursor
    /\ file_path[id].present
    /\ file_path[id].object_id # 0
    /\ file_path' = [file_path EXCEPT ![id].object_id = 0]
    /\ inserted' = inserted + 1
    /\ appeared' = appeared \cup {<<id, Len(batches)>>}
    /\ UNCHANGED <<object, status, data, run_metadata, steps, step_number, pc,
                   file_paths, pending, tally, orphan_count, init_orphans,
                   batches, last>>
    /\ UNCHANGED <<init, error, previous, checkpoint>>

NextAppear ==
    \/ Next
    \/ \E id \in Ids, row \in InsertedRows : AppearRow(id, row)
    \/ \E id \in Ids : UnlinkRow(id)

SpecAppear == Init /\ [][NextAppear]_vars

\* ------------------------------------------------------------------------
\* Properties
\* ------------------------------------------------------------------------
\* the ids of all batches fetched so far
Fetched == UNION { Range(batches[i]) : i \in 1..Len(batches) }

\* C1: in a run that reaches finalize with no row inserted meanwhile, the
\* batches fetched by the steps are pairwise disjoint and their union is the
\* set of orphans that matched the filter at init
C1_BatchesPartitionOrphans ==
    (status = "Finalized" /\ inserted = 0) =>
        /\ \A i, j \in 1..Len(batches) :
               i # j => Range(batches[i]) \cap Range(batches[j]) = {}
        /\ \A i \in 1..Len(batches) :
               Cardinality(Range(batches[i])) = Len(batches[i])
        /\ Fetched = init_orphans

\* C2: when init succeeds, the cursor it stores is the smallest id among the
\* rows that match the orphan filter
C2_CursorIsSmallestOrphan ==
    (status = "Running" /\ orphan_count > 0 /\ batches = <<>>) =>
        run_metadata.cursor = MinOf(init_orphans)

\* the report of the run
Report == run_metadata.report

C4_StepCountsSumToBatch ==
    last.done =>
        last.result.report.total_objects_created
            + last.result.report.total_objects_linked
            + last.result.report.total_objects_ignored = Len(last.batch)

\* C5 as stated: after init, created + linked + ignored <= total_orphans,
\* also when the scanning process inserts orphans during the run
C5_ProcessedAtMostTotal ==
    orphan_count > 0 =>
        Report.total_objects_created + Report.total_objects_linked
            + Report.total_objects_ignored <= Report.total_orphan_paths

\* C5 amended: after init, created + linked + ignored <= total_orphans as
\* long as no row was inserted during the run
C5_ProcessedAtMostTotalNoInsert ==
    (orphan_count > 0 /\ inserted = 0) =>
        Report.total_objects_created + Report.total_objects_linked
            + Report.total_objects_ignored <= Report.total_orphan_paths

\* a finished run of two steps that processed every orphan counted at init
C5_Witness ==
    /\ status = "Finalized"
    /\ inserted = 0
    /\ step_number = 2
    /\ Report.total_objects_created + Report.total_objects_linked
           = Report.total_orphan_paths

\* C6: init plans ceil(orphan_count / CHUNK_SIZE) steps, and the plan stays
\* the same for the rest of the run, also after insertions
C6_PlannedSteps ==
    orphan_count > 0 =>
        /\ steps * CHUNK_SIZE >= orphan_count
        /\ (steps - 1) * CHUNK_SIZE < orphan_count

\* a run planned with a partial last chunk, after an insertion
C6_Witness ==
    /\ orphan_count = CHUNK_SIZE + 1
    /\ steps = 2
    /\ inserted > 0
    /\ step_number = 2

\* C7: absent insertions, a run over N orphans executes ceil(N/C) steps, all
\* but the last of C entries and the last of N - C*(ceil(N/C)-1) entries
C7_BatchSizes ==
    (status = "Finalized" /\ inserted = 0) =>
        /\ Len(batches) * CHUNK_SIZE >= orphan_count
        /\ (Len(batches) - 1) * CHUNK_SIZE < orphan_count
        /\ \A i \in 1..(Len(batches) - 1) : Len(batches[i]) = CHUNK_SIZE
        /\ Len(batches[Len(batches)])
               = orphan_count - CHUNK_SIZE * (Len(batches) - 1)

\* what C8 asks of the batch fetched for cursor X from a table
BatchOK(batch, X, table, maybe_sub) ==
    LET wanted == { id \in Ids :
                       /\ id >= X
                       /\ table[id].present
                       /\ table[id].object_id = 0
                       /\ ~table[id].is_dir
                       /\ table[id].location_id = ThisLocation
                       /\ (maybe_sub # None =>
                              /\ Len(table[id].materialized_path) >= 1
                              /\ table[id].materialized_path[1] = "sub") }
    IN  /\ Range(batch) \subseteq wanted
        /\ \A i \in 1..(Len(batch) - 1) : batch[i] < batch[i + 1]
        /\ Len(batch) <= CHUNK_SIZE
        /\ \A id \in wanted \ Range(batch) :
               \A i \in 1..Len(batch) : batch[i] < id

\* C8: every batch a step fetches for cursor X holds only rows with id >= X
\* that match the orphan filter, in strictly ascending id order, at most
\* CHUNK_SIZE of them, and they are the matching rows of lowest id
C8_FetchBatch ==
    [][ Len(batches') = Len(batches) + 1 =>
            BatchOK(batches'[Len(batches')], run_metadata.cursor, file_path,
                    data[1].maybe_sub_iso_file_path) ]_vars

\* a full batch fetched under a scope, with a matching row left for the next
\* step, an orphan below the cursor and a row outside the scope not fetched
C8_Witness ==
    /\ pc = "process"
    /\ pending = Range(file_paths)
    /\ Len(file_paths) = CHUNK_SIZE
    /\ data[1].maybe_sub_iso_file_path # None
    /\ \E id \in Ids :
           /\ id > MaxOf(Range(file_paths))
           /\ orphan_path_filters(file_path, id, ThisLocation, None,
                                  data[1].maybe_sub_iso_file_path)
    /\ \E id \in Ids :
           /\ id < run_metadata.cursor
           /\ file_path[id].present
           /\ file_path[id].object_id = 0

\* C9: the cursor never decreases, and a step that processed a batch leaves
\* the cursor at 1 + the largest id of the batch, above where it started
C9_CursorAdvances ==
    [][ /\ run_metadata'.cursor >= run_metadata.cursor
        /\ step_number' = step_number + 1 =>
               /\ run_metadata'.cursor = 1 + MaxOf(Range(file_paths))
               /\ run_metadata'.cursor > run_metadata.cursor ]_vars

\* a second step has moved the cursor past an entry that is still an orphan
C9_Witness ==
    /\ step_number = 2
    /\ last.done
    /\ run_metadata.cursor = 1 + MaxOf(Range(last.batch))
    /\ last.cursor_before < run_metadata.cursor
    /\ \E id \in Range(last.batch) : file_path[id].object_id = 0

\* C10: when init counts zero orphans the run ends with EarlyFinish, no step
\* runs and no file_path row or object is modified
C10_NoOrphansEarlyFinish ==
    [][ orphan_count' = 0 =>
            /\ status' = "EarlyFinished"
            /\ batches' = <<>>
            /\ step_number' = 0
            /\ pc' = "idle"
            /\ file_path' = file_path
            /\ object' = object ]_vars

\* init found no orphan in a table that has rows
C10_Witness ==
    /\ orphan_count = 0
    /\ status = "EarlyFinished"
    /\ \E id \in Ids : file_path[id].present /\ file_path[id].object_id = 0
    /\ \E id \in Ids : file_path[id].present /\ file_path[id].object_id # 0

\* C11: when a step's fetch returns an empty batch the run ends EarlyFinished,
\* not Failed, that step merges nothing, and the run metadata stays what the
\* completed steps merged, also afterwards
C11_EmptyBatchEarlyFinish ==
    [][ /\ (Len(batches') = Len(batches) + 1 /\ batches'[Len(batches')] = <<>>) =>
               /\ status' = "EarlyFinished"
               /\ error' = "none"
               /\ run_metadata' = run_metadata
               /\ step_number' = step_number
               /\ last' = last
        /\ status = "EarlyFinished" =>
               /\ run_metadata' = run_metadata
               /\ status' = status ]_vars

\* a second step found no row after the first step had merged its counts
C11_Witness ==
    /\ status = "EarlyFinished"
    /\ Len(batches) = 2
    /\ batches[2] = <<>>
    /\ step_number = 1
    /\ Report.total_objects_created + Report.total_objects_linked > 0
    /\ run_metadata.cursor = 1 + MaxOf(Range(batches[1]))

\* C12: when the sub_path given to init is not a directory, init fails with
\* InvalidSubPath before it counts the orphans, and leaves no job data, run
\* metadata or planned steps
C12_InvalidSubPath ==
    [][ (status = "NotStarted" /\ init' = Some([sub_path |-> Some("file")])) =>
            /\ status' = "Failed"
            /\ error' = "InvalidSubPath"
            /\ orphan_count' = -1
            /\ data' = None
            /\ run_metadata' = DefaultRunMetadata
            /\ steps' = 0
            /\ batches' = <<>> ]_vars

\* init failed on a sub_path that is not a directory, in a location that has
\* orphans
C12_Witness ==
    /\ status = "Failed"
    /\ error = "InvalidSubPath"
    /\ init = Some([sub_path |-> Some("file")])
    /\ Matching(file_path, ThisLocation, None, None) # {}

\* C13 as stated: after a run over a location was finalized, the next run
\* over it finds zero orphans at init and ends with EarlyFinish without a step
C13_SecondRunFindsNothing ==
    (previous.done /\ orphan_count # -1 /\ data = previous.data) =>
        /\ orphan_count = 0
        /\ status = "EarlyFinished"
        /\ batches = <<>>

\* C13 amended: the next run finds zero orphans and ends with EarlyFinish
\* without a step when the finalized run identified every entry it counted
\* (created + linked = total_orphans), no row was inserted, and both runs
\* have the same scope
C13_SecondRunFindsNothingIfAllLinked ==
    ( /\ previous.done
      /\ orphan_count # -1
      /\ data = previous.data
      /\ inserted = 0
      /\ previous.report.total_objects_created + previous.report.total_objects_linked
             = previous.report.total_orphan_paths ) =>
        /\ orphan_count = 0
        /\ status = "EarlyFinished"
        /\ batches = <<>>
        /\ step_number = 0

\* a second run, with the same scope, after a run of two steps that linked
\* every orphan
C13_Witness ==
    /\ previous.done
    /\ previous.report.total_orphan_paths = CHUNK_SIZE + 1
    /\ previous.report.total_objects_created + previous.report.total_objects_linked
           = CHUNK_SIZE + 1
    /\ inserted = 0
    /\ data = previous.data
    /\ orphan_count = 0
    /\ status = "EarlyFinished"

\* C14: a step's outcome is merged once and whole, in step order: a step that
\* ends with a fatal error leaves the run metadata as it was, a step that
\* returns Continue adds the counters of its result to the report and puts
\* its cursor in place of the old one, and nothing else changes the metadata
C14_MergeAllOrNothing ==
    [][ /\ (status = "Running" /\ status' = "Failed") =>
               run_metadata' = run_metadata
        /\ step_number' = step_number + 1 =>
               /\ Len(batches) = step_number'
               /\ last'.batch = batches[step_number']
               /\ run_metadata'.report.total_objects_created =
                      Report.total_objects_created
                          + last'.result.report.total_objects_created
               /\ run_metadata'.report.total_objects_linked =
                      Report.total_objects_linked
                          + last'.result.report.total_objects_linked
               /\ run_metadata'.report.total_objects_ignored =
                      Report.total_objects_ignored
                          + last'.result.report.total_objects_ignored
               /\ run_metadata'.report.total_orphan_paths = Report.total_orphan_paths
               /\ run_metadata'.cursor = last'.result.cursor
        /\ (status = "Running" /\ step_number' = step_number) =>
               run_metadata' = run_metadata ]_vars

\* the second step failed after the engine had linked an entry of its batch;
\* the metadata is what the first step merged
C14_Witness ==
    /\ status = "Failed"
    /\ error = "Fatal"
    /\ step_number = 1
    /\ tally.created + tally.linked > 0
    /\ last.done
    /\ Report.total_objects_created = last.result.report.total_objects_created
    /\ Report.total_objects_linked = last.result.report.total_objects_linked
    /\ Report.total_objects_created + Report.total_objects_linked > 0
    /\ run_metadata.cursor = last.result.cursor

Terminal == {"Finalized", "EarlyFinished", "Failed"}

\* a terminal run changes nothing of the job or of the tables any more
TerminalIsFinal ==
    (status \in Terminal) =>
        /\ status' = status
        /\ step_number' = step_number
        /\ batches' = batches
        /\ run_metadata' = run_metadata
        /\ pc' = pc
        /\ file_path' = file_path
        /\ object' = object

\* the step number only moves by one, at the end of a fully processed batch
StepsInOrder ==
    (step_number' # step_number) =>
        /\ step_number' = step_number + 1
        /\ pc = "process"
        /\ pending = {}

\* no more steps than planned; finalized only after all of them
StepsWithinPlan ==
    /\ step_number <= steps
    /\ Len(batches) <= steps
    /\ (status = "Finalized" => step_number = steps /\ Len(batches) = steps)
    /\ (status = "Running" /\ pc = "idle" => Len(batches) = step_number)
    /\ (status = "Running" /\ pc = "process" => Len(batches) = step_number + 1)

\* C16: under fair scheduling every run reaches a terminal state, and stays
\* in it with no further step; it fetches at most the planned number of
\* batches, one step at a time in step order, and is finalized only after
\* all planned steps were merged
C16_RunTerminates ==
    /\ <>(status \in Terminal)
    /\ [][TerminalIsFinal]_vars
    /\ []StepsWithinPlan
    /\ [][StepsInOrder]_vars

\* a run of two planned steps was finalized
C16_Witness ==
    /\ status = "Finalized"
    /\ steps = 2
    /\ step_number = 2
    /\ Len(batches) = 2

\* an entry the run may touch: a file of the run's location, under the
\* sub_path when the run was given one
Eligible(id) ==
    /\ file_path[id].present
    /\ file_path[id].is_dir = FALSE
    /\ file_path[id].location_id = ThisLocation
    /\ (init # None /\ init[1].sub_path = Some("sub") =>
            StartsWith(file_path[id].materialized_path, SubPath))

\* the entries init counts, a step fetches and the engine links
OnlyEligibleTouched ==
    /\ \A id \in Ids :
           file_path'[id].object_id # file_path[id].object_id =>
               Eligible(id) /\ file_path[id].object_id = 0
    /\ (batches' # batches =>
           \A id \in Range(batches'[Len(batches')]) :
               Eligible(id) /\ file_path[id].object_id = 0)
    /\ (status = "NotStarted" /\ status' \in {"Running", "EarlyFinished"} =>
           orphan_count' =
               Cardinality({ id \in Ids : Eligible(id)' /\ file_path[id].object_id = 0 }))

\* C17: a run counts, fetches and links only entries without a content link
\* that are files of its location and, when a sub_path is given, lie under
\* it; the link of every other entry is never changed
C17_OnlyOrphansInScope == [][OnlyEligibleTouched]_vars

\* a finalized run over a sub_path linked an entry and left a directory, an
\* entry of another location and an entry outside the sub_path unlinked
C17_Witness ==
    /\ status = "Finalized"
    /\ init = Some([sub_path |-> Some("sub")])
    /\ \E id \in Fetched : file_path[id].object_id # 0
    /\ \E id \in Ids : file_path[id] = Row(ThisLocation, TRUE, SubPath, 0, "x")
    /\ \E id \in Ids : file_path[id] = Row(OtherLocation, FALSE, SubPath, 0, "x")
    /\ \E id \in Ids : file_path[id] = Row(ThisLocation, FALSE, RootPath, 0, "x")

\* C18: from init on, through every step merge and every insertion and in
\* the final report, total_orphan_paths is the count init took
C18_TotalOrphansFixed ==
    status \in {"Running", "Finalized", "EarlyFinished"} =>
        Report.total_orphan_paths = orphan_count

\* a finalized run of two merged steps that fetched an inserted orphan on
\* top of the ones init counted
C18_Witness ==
    /\ status = "Finalized"
    /\ step_number = 2
    /\ inserted = 1
    /\ orphan_count > 0
    /\ Cardinality(Fetched) > orphan_count
    /\ Report.total_objects_created + Report.total_objects_linked > 0

\* the entries of the running step that the engine gave up on
SoftFailed == Range(file_paths) \ (pending \cup tally.ok)

\* C19: an entry that soft-fails in a step stays without a content link and
\* lies below the cursor once the step is merged, and the ids of a later
\* batch are all above the ids of every earlier batch, so no entry is
\* attempted twice in a run
C19_SoftFailedNotRetried ==
    /\ (pc = "process" =>
           /\ tally.ignored = Cardinality(SoftFailed)
           /\ \A id \in SoftFailed : file_path[id].object_id = 0)
    /\ (last.done =>
           \A id \in Range(last.batch) \ last.tally.ok :
               /\ file_path[id].object_id = 0
               /\ id < run_metadata.cursor)
    /\ \A i, j \in 1..Len(batches) :
           i < j => \A a \in Range(batches[i]), b \in Range(batches[j]) : a < b

\* a finalized run whose first step soft-failed on an entry that is still an
\* orphan, and whose second step fetched other entries
C19_Witness ==
    /\ status = "Finalized"
    /\ Len(batches) = 2
    /\ batches[2] # <<>>
    /\ \E id \in Range(batches[1]) :
           /\ file_path[id].object_id = 0
           /\ id \notin Range(batches[2])
           /\ id < run_metadata.cursor

\* the ids of the rows that appeared below the cursor
AppearedIds == { a[1] : a \in appeared }

\* a step leaves alone what appeared below the cursor, and fetches nothing
\* that an earlier batch of the run held
AppearedStaysOut ==
    /\ \A id \in AppearedIds :
           file_path'[id].object_id = file_path[id].object_id
    /\ (batches' # batches =>
           Range(batches'[Len(batches')]) \cap (AppearedIds \cup Fetched) = {})

\* C20: an orphan that appears below the cursor of a run in progress is not
\* fetched and not linked by any later step of the run, and whatever rows
\* are inserted meanwhile no id is in two batches of the run
C20_BelowCursorNeverFetched == [][AppearedStaysOut]_vars

\* a run was finalized after a step fetched a non-empty batch later than
\* the appearance of an orphan below the cursor, which is still an orphan of
\* the run's location
C20_Witness ==
    /\ status = "Finalized"
    /\ \E a \in appeared :
           /\ Len(batches) > a[2]
           /\ batches[Len(batches)] # <<>>
           /\ Eligible(a[1])
           /\ file_path[a[1]].object_id = 0

====
